---- MODULE Spec2Model ----
(***************************************************************************)
(* earthacrosstime.py: the geospatial addressing pipeline of main() and    *)
(* the pure functions it is built from (GeoPoint, GeoRect, GeoShape,       *)
(* MercatorProjection, determine_level, Tile.from_pixpoint_and_level).     *)
(*                                                                         *)
(* Number representation.  Python floats are modelled as exact fixed-point *)
(* integers: latitudes in whole degrees, longitudes in units of 2^-13      *)
(* degree (Deg(n) is n degrees), pixel coordinates in whole pixels, sines  *)
(* in units of 1e-4, Mercator ordinates in units of 1e-3, metres per pixel *)
(* in whole metres.  A division rounds towards minus infinity.  A pixel of *)
(* the datasets of the model is a whole number of longitude units wide     *)
(* (45 units = 360/65536 degree in the 65536 pixel raster), so that every  *)
(* longitude the code computes is exact.                                   *)
(*                                                                         *)
(* Python values are records tagged by "kind"; a raised exception is the   *)
(* record Raise(type, at), and None is the record None.                    *)
(***************************************************************************)
EXTENDS Integers, Sequences, FiniteSets, TLC

VARIABLES
    pc,                     \* position in main(), or in the function a harness applies
    config,                 \* Config c: point, shapefile, max_meters_per_pixel
    repository,             \* the tm.json and r.json the repository serves
    metadata,               \* Metadata returned by MetadataFetcher.fetch
    shape,                  \* GeoShape loaded from c.shapefile
    bounds,                 \* random_geopoint: GeoRect of the shape's bounding box
    geopoint,               \* main: geopoint; random_geopoint: the current candidate
    i,                      \* random_geopoint: the loop counter i
    draws,                  \* history: points drawn by GeoPoint.random in this call
    rejected,               \* history: drawn points for which contains() was false
    max_meters_per_pixel,   \* main: the constraint handed to determine_level
    proj,                   \* main: MercatorProjection
    pixpoint,               \* main: PixPoint of geopoint
    level,                  \* main: ZoomLevel returned by determine_level
    iterations,             \* history: loop iterations of the last determine_level call
    last_one_pixel_off,     \* history: the last one_pixel_off determine_level built
    tile,                   \* main: Tile
    video,                  \* main: RawVideo of the tile
    requests,               \* history: the outcomes of the GET requests of download
    written,                \* the file __write_to_temp has written, or None
    calls,                  \* harness: the calls made, with their results
    error                   \* the exception that ended the run, or None

vars == <<pc, config, repository, metadata, shape, bounds, geopoint, i, draws,
          rejected, max_meters_per_pixel, proj, pixpoint, level, iterations,
          last_one_pixel_off, tile, video, requests, written, calls, error>>

(***************************************************************************)
(* Bounds of the model.                                                    *)
(***************************************************************************)
\* nlevels of the modelled datasets ranges over 1..MaxLevels
MaxLevels == 3
\* random.random() returns k / DrawDen for k in 0..DrawDen-1
DrawDen == 2

(***************************************************************************)
(* Values.                                                                 *)
(***************************************************************************)
None == [kind |-> "None"]

Raise(type, at) == [kind |-> "Exception", type |-> type, at |-> at]

IsExc(v) == v.kind = "Exception"

IsNone(v) == v.kind = "None"

Int_(n) == [kind |-> "int", value |-> n]

Abs(n) == IF n < 0 THEN -n ELSE n

Max(a, b) == IF a >= b THEN a ELSE b

Min(a, b) == IF a <= b THEN a ELSE b

RECURSIVE Pow2(_)
Pow2(n) == IF n <= 0 THEN 1 ELSE 2 * Pow2(n - 1)

\* n / d rounded towards minus infinity, d # 0
FloorDiv(n, d) == IF d > 0 THEN n \div d ELSE (-n) \div (-d)

RECURSIVE GCD(_, _)
GCD(a, b) == IF b = 0 THEN Abs(a) ELSE GCD(b, a % Abs(b))

\* a * b / c rounded towards minus infinity, c # 0: the fraction b / c and
\* then a / c are reduced first, which keeps the product within 32 bits
MulDiv(a, b, c) ==
    LET g1 == GCD(b, c)
        b1 == b \div g1
        c1 == c \div g1
        g2 == GCD(a, c1)
    IN  FloorDiv((a \div g2) * b1, c1 \div g2)

\* the units of longitude in one degree
LonUnit == Pow2(13)

\* n degrees of longitude
Deg(n) == n * LonUnit

\* d units of longitude times m per degree, rounded towards minus infinity;
\* the whole degrees and the fraction of d are multiplied apart, which keeps
\* the products within 32 bits
TimesDegrees(m, d) ==
    m * (d \div LonUnit) + (m * (d % LonUnit)) \div LonUnit

\* Python's round(n / d): to the nearest integer, a tie to the even one; d # 0
round(n, d) ==
    LET nn == IF d > 0 THEN n ELSE -n
        dd == Abs(d)
        q == nn \div dd
        r == nn % dd
    IN  IF 2 * r < dd THEN q
        ELSE IF 2 * r > dd THEN q + 1
        ELSE IF q % 2 = 0 THEN q ELSE q + 1

(***************************************************************************)
(* math.sin, math.cos, math.asin, math.radians on whole degrees.           *)
(***************************************************************************)
\* 10000 * sin(a degrees) for a = 0..90, rounded
sin_table ==
    << 0, 175, 349, 523, 698, 872, 1045, 1219, 1392, 1564,
       1736, 1908, 2079, 2250, 2419, 2588, 2756, 2924, 3090, 3256,
       3420, 3584, 3746, 3907, 4067, 4226, 4384, 4540, 4695, 4848,
       5000, 5150, 5299, 5446, 5592, 5736, 5878, 6018, 6157, 6293,
       6428, 6561, 6691, 6820, 6947, 7071, 7193, 7314, 7431, 7547,
       7660, 7771, 7880, 7986, 8090, 8192, 8290, 8387, 8480, 8572,
       8660, 8746, 8829, 8910, 8988, 9063, 9135, 9205, 9272, 9336,
       9397, 9455, 9511, 9563, 9613, 9659, 9703, 9744, 9781, 9816,
       9848, 9877, 9903, 9925, 9945, 9962, 9976, 9986, 9994, 9998,
       10000 >>

\* math.sin(math.radians(deg)), in units of 1e-4
sin(deg) == IF deg >= 0 THEN sin_table[deg + 1] ELSE -sin_table[-deg + 1]

\* math.cos(math.radians(deg)), in units of 1e-4
cos(deg) == sin_table[90 - Abs(deg) + 1]

\* math.degrees(math.asin(v)), v in units of 1e-4 and -10000 <= v: the largest
\* whole degree whose sine is at most v
RECURSIVE asin_between(_, _, _)
asin_between(lo, hi, v) ==
    IF lo = hi THEN lo
    ELSE LET mid == (lo + hi + 1) \div 2
         IN  IF sin(mid) <= v THEN asin_between(mid, hi, v)
             ELSE asin_between(lo, mid - 1, v)

asin(v) == asin_between(-90, 90, v)

\* pi, in units of 1e-4
pi == 31416

\* math.radians(x), in units of 1e-2
radians(x) == (x * pi) \div 18000

(***************************************************************************)
(* GeoPoint, GeoRect.                                                      *)
(***************************************************************************)
\* GeoPoint.__init__ without its check of the longitude
GeoPointLatOnly(lat, lon) ==
    IF -90 <= lat /\ lat <= 90
    THEN [kind |-> "GeoPoint", lat |-> lat, lon |-> lon]
    ELSE Raise("AssertionError", "GeoPoint.__init__")

\* GeoPoint.__init__
GeoPoint(lat, lon) ==
    IF -90 <= lat /\ lat <= 90 /\ -Deg(180) <= lon /\ lon <= Deg(180)
    THEN [kind |-> "GeoPoint", lat |-> lat, lon |-> lon]
    ELSE Raise("AssertionError", "GeoPoint.__init__")

\* GeoRect.__init__ with the longitudes checked like the latitudes
GeoRectLonChecked(sw, ne) ==
    IF sw.lat <= ne.lat /\ sw.lon <= ne.lon
    THEN [kind |-> "GeoRect", sw |-> sw, ne |-> ne]
    ELSE Raise("AssertionError", "GeoRect.__init__")

\* GeoRect.__init__
GeoRect(sw, ne) ==
    IF sw.lat <= ne.lat
    THEN [kind |-> "GeoRect", sw |-> sw, ne |-> ne]
    ELSE Raise("AssertionError", "GeoRect.__init__")

\* GeoRect.from_shapefile_bbox reading the bbox as [lat, lon, lat, lon]
from_shapefile_bbox_lat_first(bbox) ==
    LET sw == GeoPoint(bbox[1], bbox[2])
    IN  IF IsExc(sw) THEN sw
        ELSE LET ne == GeoPoint(bbox[3], bbox[4])
             IN  IF IsExc(ne) THEN ne ELSE GeoRect(sw, ne)

\* GeoRect.from_shapefile_bbox: bbox = <<bbox[0], bbox[1], bbox[2], bbox[3]>>
from_shapefile_bbox(bbox) ==
    LET sw == GeoPoint(bbox[2], bbox[1])
    IN  IF IsExc(sw) THEN sw
        ELSE LET ne == GeoPoint(bbox[4], bbox[3])
             IN  IF IsExc(ne) THEN ne ELSE GeoRect(sw, ne)

\* GeoPoint.random without the wrap of a negative width
GeoPoint_random_no_wrap(georect, u1, u2) ==
    LET north == georect.ne.lat
        south == georect.sw.lat
        lat == asin(FloorDiv(u1 * (sin(north) - sin(south)), DrawDen) + sin(south))
        west == georect.sw.lon
        east == georect.ne.lon
        width == east - west
        lon0 == west + FloorDiv(width * u2, DrawDen)
        lon == IF lon0 > Deg(180) THEN lon0 - Deg(360)
               ELSE IF lon0 < -Deg(180) THEN lon0 + Deg(360) ELSE lon0
    IN  GeoPoint(lat, lon)

\* GeoPoint.random; the two random.random() results are u1/DrawDen, u2/DrawDen
GeoPoint_random(georect, u1, u2) ==
    LET north == georect.ne.lat
        south == georect.sw.lat
        lat == asin(FloorDiv(u1 * (sin(north) - sin(south)), DrawDen) + sin(south))
        west == georect.sw.lon
        east == georect.ne.lon
        width0 == east - west
        width == IF width0 < 0 THEN width0 + Deg(360) ELSE width0
        lon0 == west + FloorDiv(width * u2, DrawDen)
        lon == IF lon0 > Deg(180) THEN lon0 - Deg(360)
               ELSE IF lon0 < -Deg(180) THEN lon0 + Deg(360) ELSE lon0
    IN  GeoPoint(lat, lon)

(***************************************************************************)
(* GeoShape.  The polygon of a shapefile is an axis-parallel rectangle     *)
(* poly = <<lon_lo, lat_lo, lon_hi, lat_hi>>; shapely's contains is true   *)
(* of the points of its interior.                                          *)
(***************************************************************************)
\* GeoShape.__init__ on the shapefile record sf
GeoShape(sf) ==
    IF sf.nshapes # 1 \/ sf.shapeTypeName # "POLYGON"
    THEN Raise("AssertionError", "GeoShape.__init__")
    ELSE [kind |-> "GeoShape", bbox |-> sf.bbox, poly |-> sf.poly]

\* GeoShape.contains
contains(self, p) ==
    /\ self.poly[1] < p.lon /\ p.lon < self.poly[3]
    /\ self.poly[2] < p.lat /\ p.lat < self.poly[4]

(***************************************************************************)
(* MercatorProjection.                                                     *)
(***************************************************************************)
\* 1000 * ln((1 + sin a) / cos a) for a = 0..90 degrees, rounded; the last
\* entry is what the floats give at 90 degrees, where cos is 6.1e-17
raw_project_lat_table ==
    << 0, 17, 35, 52, 70, 87, 105, 122, 140, 158,
       175, 193, 211, 229, 247, 265, 283, 301, 319, 338,
       356, 375, 394, 413, 432, 451, 470, 490, 509, 529,
       549, 570, 590, 611, 632, 653, 674, 696, 718, 740,
       763, 786, 809, 833, 857, 881, 906, 932, 957, 984,
       1011, 1038, 1066, 1095, 1124, 1154, 1185, 1217, 1249, 1283,
       1317, 1352, 1389, 1427, 1466, 1506, 1549, 1592, 1638, 1686,
       1735, 1788, 1843, 1901, 1962, 2028, 2097, 2172, 2253, 2340,
       2436, 2542, 2660, 2794, 2949, 3131, 3355, 3643, 4048, 4741,
       38025 >>

raw_project_lat_of(lat) ==
    IF lat >= 0 THEN raw_project_lat_table[lat + 1] ELSE -raw_project_lat_table[-lat + 1]

\* MercatorProjection.__raw_project_lat, in units of 1e-3.  At lat = -90 the
\* floats give 1 + sin(lat) = 0.0 and math.log(0.0) raises.
raw_project_lat(lat) ==
    IF lat = -90 THEN Raise("ValueError", "__raw_project_lat")
    ELSE Int_(raw_project_lat_of(lat))

\* the largest whole degree in lo..hi whose ordinate is at most y, or lo
RECURSIVE raw_unproject_lat_between(_, _, _)
raw_unproject_lat_between(lo, hi, y) ==
    IF lo = hi THEN lo
    ELSE LET mid == (lo + hi + 1) \div 2
         IN  IF raw_project_lat_of(mid) <= y THEN raw_unproject_lat_between(mid, hi, y)
             ELSE raw_unproject_lat_between(lo, mid - 1, y)

\* MercatorProjection.__raw_unproject_lat, y in units of 1e-3: the whole
\* degree nearest to (2 atan(e^y) - pi/2) 180/pi, which lies in -90..90
raw_unproject_lat(y) ==
    LET d == raw_unproject_lat_between(-90, 90, y)
    IN  IF d < 90 /\ raw_project_lat_of(d + 1) - y < y - raw_project_lat_of(d) THEN d + 1 ELSE d

\* MercatorProjection.__interpolate, from_high # from_low
interpolate(x, from_low, from_high, to_low, to_high) ==
    MulDiv(x - from_low, to_high - to_low, from_high - from_low) + to_low

\* MercatorProjection.__init__
MercatorProjection(projection_bounds, width, height) ==
    [kind |-> "MercatorProjection",
     west |-> projection_bounds.west, north |-> projection_bounds.north,
     east |-> projection_bounds.east, south |-> projection_bounds.south,
     width |-> width, height |-> height]

PixPoint(x, y) == [kind |-> "PixPoint", x |-> x, y |-> y]

\* MercatorProjection.geopoint_to_pixpoint
geopoint_to_pixpoint(self, p) ==
    IF self.east = self.west
    THEN Raise("ZeroDivisionError", "__interpolate")
    ELSE
    LET x == interpolate(p.lon, self.west, self.east, 0, self.width)
        py == raw_project_lat(p.lat)
        pn == raw_project_lat(self.north)
        ps == raw_project_lat(self.south)
    IN  IF IsExc(py) THEN py
        ELSE IF IsExc(pn) THEN pn
        ELSE IF IsExc(ps) THEN ps
        ELSE IF ps.value = pn.value
        THEN Raise("ZeroDivisionError", "__interpolate")
        ELSE PixPoint(x, interpolate(py.value, pn.value, ps.value, 0, self.height))

\* MercatorProjection.pixpoint_to_geopoint with north and south exchanged
pixpoint_to_geopoint_upside_down(self, pp) ==
    IF self.width = 0
    THEN Raise("ZeroDivisionError", "__interpolate")
    ELSE
    LET lon == interpolate(pp.x, 0, self.width, self.west, self.east)
        pn == raw_project_lat(self.north)
        ps == raw_project_lat(self.south)
    IN  IF IsExc(pn) THEN pn
        ELSE IF IsExc(ps) THEN ps
        ELSE IF self.height = 0
        THEN Raise("ZeroDivisionError", "__interpolate")
        ELSE GeoPoint(
                 raw_unproject_lat(
                     interpolate(pp.y, 0, self.height, ps.value, pn.value)),
                 lon)

\* MercatorProjection.pixpoint_to_geopoint
pixpoint_to_geopoint(self, pp) ==
    IF self.width = 0
    THEN Raise("ZeroDivisionError", "__interpolate")
    ELSE
    LET lon == interpolate(pp.x, 0, self.width, self.west, self.east)
        pn == raw_project_lat(self.north)
        ps == raw_project_lat(self.south)
    IN  IF IsExc(pn) THEN pn
        ELSE IF IsExc(ps) THEN ps
        ELSE IF self.height = 0
        THEN Raise("ZeroDivisionError", "__interpolate")
        ELSE GeoPoint(
                 raw_unproject_lat(
                     interpolate(pp.y, 0, self.height, pn.value, ps.value)),
                 lon)

(***************************************************************************)
(* GeoPoint.determine_level.                                               *)
(***************************************************************************)
\* earth_radius, in kilometers
earth_radius == 6371

ZoomLevel(index, lat, meters_per_pixel) ==
    [kind |-> "ZoomLevel", index |-> index, lat |-> lat,
     meters_per_pixel |-> meters_per_pixel]

\* the loop's test with the comparison turned around
LevelFoundBelow(meters_per_pixel, max, lvl) ==
    meters_per_pixel < max \/ lvl = 0

\* the loop's test with >= for >
LevelFoundAtLeast(meters_per_pixel, max, lvl) ==
    meters_per_pixel >= max \/ lvl = 0

\* the test that ends the loop of determine_level
LevelFound(meters_per_pixel, max, lvl) ==
    meters_per_pixel > max \/ lvl = 0

\* 1 / scale for scale = 2 ** (level - (nlevels - 1)), with nlevels - lvl for
\* the power of two
one_over_scale_linear(nlevels, lvl) == nlevels - lvl

\* 1 / scale for scale = 2 ** (level - (nlevels - 1)), in pixels
one_over_scale(nlevels, lvl) == Pow2(nlevels - 1 - lvl)

\* The loop of determine_level from index lvl downwards, after n iterations:
\* [ret |-> the ZoomLevel returned or the exception raised,
\*  iterations |-> the iterations executed,
\*  one_pixel_off |-> the GeoPoint the last iteration built, None if it raised,
\*  computed |-> the meters_per_pixel of the iterations from lvl on, in the
\*               order they were computed].
\* c1 is in units of 1e-2 and the
\* cosine in units of 1e-4, so c1 * cos * 1000 metres per degree is
\* (c1 * cos) \div 1000, and c1 * v1 * 1000 is that times degrees_per_pixel.
RECURSIVE determine_level_loop(_, _, _, _, _, _, _)
determine_level_loop(self, proj_, nlevels, max, point, lvl, n) ==
    LET c1 == radians(earth_radius)
        one_pixel_off ==
            pixpoint_to_geopoint(
                proj_, PixPoint(point.x + one_over_scale(nlevels, lvl), point.y))
    IN  IF IsExc(one_pixel_off)
        THEN [ret |-> one_pixel_off, iterations |-> n + 1,
              one_pixel_off |-> None, computed |-> << >>]
        ELSE
        LET degrees_per_pixel == Abs(self.lon - one_pixel_off.lon)
            meters_per_degree == (c1 * cos(self.lat)) \div 1000
            meters_per_pixel == TimesDegrees(meters_per_degree, degrees_per_pixel)
        IN  IF LevelFound(meters_per_pixel, max, lvl)
            THEN [ret |-> ZoomLevel(lvl, self.lat, meters_per_pixel),
                  iterations |-> n + 1, one_pixel_off |-> one_pixel_off,
                  computed |-> <<meters_per_pixel>>]
            ELSE LET rest == determine_level_loop(self, proj_, nlevels, max,
                                                  point, lvl - 1, n + 1)
                 IN  [rest EXCEPT !.computed = <<meters_per_pixel>> \o @]

\* GeoPoint.determine_level with range(nlevels) not reversed: the loop starts
\* at index 0, where it returns
determine_level_run_ascending(self, proj_, nlevels, max) ==
    LET point == geopoint_to_pixpoint(proj_, self)
    IN  IF IsExc(point)
        THEN [ret |-> point, iterations |-> 0, one_pixel_off |-> None,
              computed |-> << >>]
        ELSE IF nlevels < 1
        THEN [ret |-> None, iterations |-> 0, one_pixel_off |-> None,
              computed |-> << >>]
        ELSE determine_level_loop(self, proj_, nlevels, max, point, 0, 0)

\* GeoPoint.determine_level, with the count of its loop's iterations; an empty
\* range(nlevels) falls off the end of the function, which returns None
determine_level_run(self, proj_, nlevels, max) ==
    LET point == geopoint_to_pixpoint(proj_, self)
    IN  IF IsExc(point)
        THEN [ret |-> point, iterations |-> 0, one_pixel_off |-> None,
              computed |-> << >>]
        ELSE IF nlevels < 1
        THEN [ret |-> None, iterations |-> 0, one_pixel_off |-> None,
              computed |-> << >>]
        ELSE determine_level_loop(self, proj_, nlevels, max, point, nlevels - 1, 0)

\* GeoPoint.determine_level
determine_level(self, proj_, nlevels, max) ==
    determine_level_run(self, proj_, nlevels, max).ret

(***************************************************************************)
(* Tile.from_pixpoint_and_level.                                           *)
(***************************************************************************)
Tile(level_, col, row) ==
    [kind |-> "Tile", level |-> level_, col |-> col, row |-> row]

\* Tile.from_pixpoint_and_level without the lower clamp Max(col, 0), Max(row, 0)
from_pixpoint_and_level_no_floor(pp, level_, md) ==
    LET level_scale == Pow2(md.nlevels - 1 - level_.index)
    IN  IF md.tile_width * level_scale = 0 \/ md.tile_height * level_scale = 0
        THEN Raise("ZeroDivisionError", "Tile.from_pixpoint_and_level")
        ELSE
        LET col == round(2 * pp.x - md.video_width * level_scale,
                           2 * md.tile_width * level_scale)
            row == round(2 * pp.y - md.video_height * level_scale,
                           2 * md.tile_height * level_scale)
        IN  Tile(level_,
                 Min(col, md.level_info[level_.index + 1].cols - 1),
                 Min(row, md.level_info[level_.index + 1].rows - 1))

\* Tile.from_pixpoint_and_level with the quotients rounded down, not to the
\* nearest integer
from_pixpoint_and_level_rounding_down(pp, level_, md) ==
    LET level_scale == Pow2(md.nlevels - 1 - level_.index)
    IN  IF md.tile_width * level_scale = 0 \/ md.tile_height * level_scale = 0
        THEN Raise("ZeroDivisionError", "Tile.from_pixpoint_and_level")
        ELSE
        LET col == FloorDiv(2 * pp.x - md.video_width * level_scale,
                            2 * md.tile_width * level_scale)
            row == FloorDiv(2 * pp.y - md.video_height * level_scale,
                            2 * md.tile_height * level_scale)
        IN  Tile(level_,
                 Min(Max(col, 0), md.level_info[level_.index + 1].cols - 1),
                 Min(Max(row, 0), md.level_info[level_.index + 1].rows - 1))

\* Tile.from_pixpoint_and_level.  x - video_width * level_scale * 0.5 over
\* tile_width * level_scale is taken with both doubled, which keeps the halves
\* exact; level_info[k] of the 0-based list is level_info[k + 1] here.
from_pixpoint_and_level(pp, level_, md) ==
    LET level_scale == Pow2(md.nlevels - 1 - level_.index)
    IN  IF md.tile_width * level_scale = 0
        THEN Raise("ZeroDivisionError", "Tile.from_pixpoint_and_level")
        ELSE
        LET col0 == round(2 * pp.x - md.video_width * level_scale,
                            2 * md.tile_width * level_scale)
            col1 == Max(col0, 0)
            col == Min(col1, md.level_info[level_.index + 1].cols - 1)
        IN  IF md.tile_height * level_scale = 0
            THEN Raise("ZeroDivisionError", "Tile.from_pixpoint_and_level")
            ELSE
            LET row0 == round(2 * pp.y - md.video_height * level_scale,
                                2 * md.tile_height * level_scale)
                row1 == Max(row0, 0)
                row == Min(row1, md.level_info[level_.index + 1].rows - 1)
            IN  Tile(level_, col, row)

(***************************************************************************)
(* RawVideo.  A string is a TLA+ string, an f-string its concatenation.    *)
(***************************************************************************)
\* RawVideo.__init__ with the column put before the row in url and path
RawVideoColFirst(tile_, base_url, temp_dir) ==
    [kind |-> "RawVideo", tile |-> tile_, base_url |-> base_url,
     temp_dir |-> temp_dir,
     url |-> base_url \o "/" \o ToString(tile_.level.index)
             \o "/" \o ToString(tile_.col) \o "/" \o ToString(tile_.row)
             \o ".mp4",
     path |-> temp_dir \o "/" \o ToString(tile_.level.index)
              \o "-" \o ToString(tile_.col) \o "-" \o ToString(tile_.row)
              \o "-raw.mp4"]

\* RawVideo.__init__; os.path.join puts a slash between temp_dir and the name
RawVideo(tile_, base_url, temp_dir) ==
    [kind |-> "RawVideo", tile |-> tile_, base_url |-> base_url,
     temp_dir |-> temp_dir,
     url |-> base_url \o "/" \o ToString(tile_.level.index)
             \o "/" \o ToString(tile_.row) \o "/" \o ToString(tile_.col)
             \o ".mp4",
     path |-> temp_dir \o "/" \o ToString(tile_.level.index)
              \o "-" \o ToString(tile_.row) \o "-" \o ToString(tile_.col)
              \o "-raw.mp4"]

\* the response of requests.get
Response(status_code) ==
    [kind |-> "Response", status_code |-> status_code, content |-> "video"]

\* what requests.get(self.url) does: it returns a response or raises a
\* requests.exceptions.RequestException
GetOutcomes ==
    {Response(200), Response(404), Response(500),
     Raise("RequestException", "requests.get")}

(***************************************************************************)
(* MetadataFetcher.fetch.                                                  *)
(***************************************************************************)
\* MetadataFetcher.__init__
MetadataFetcher(timemachine_repository_url) ==
    [kind |-> "MetadataFetcher",
     timemachine_repository_url |-> timemachine_repository_url]

\* MetadataFetcher.fetch without its assertions on the video size and on the
\* length of level_info
fetch_sizes_unchecked(self, tmjson, rjson) ==
    IF /\ tmjson.ndatasets = 1
       /\ rjson.leader = 0
       /\ tmjson.ncapture_times = rjson.frames
    THEN [kind |-> "Metadata",
          timemachine_repository_url |-> self.timemachine_repository_url,
          dataset |-> tmjson.dataset,
          projection_bounds |-> tmjson.projection_bounds,
          frames |-> rjson.frames,
          level_info |-> rjson.level_info, nlevels |-> rjson.nlevels,
          width |-> rjson.width, height |-> rjson.height,
          tile_width |-> rjson.tile_width, tile_height |-> rjson.tile_height,
          video_width |-> rjson.video_width, video_height |-> rjson.video_height]
    ELSE Raise("AssertionError", "MetadataFetcher.fetch")

\* MetadataFetcher.fetch on the tm.json and r.json the repository serves
fetch(self, tmjson, rjson) ==
    IF /\ tmjson.ndatasets = 1
       /\ rjson.leader = 0
       /\ tmjson.ncapture_times = rjson.frames
       /\ Len(rjson.level_info) = rjson.nlevels
       /\ 4 * rjson.tile_width = rjson.video_width
       /\ 4 * rjson.tile_height = rjson.video_height
    THEN [kind |-> "Metadata",
          timemachine_repository_url |-> self.timemachine_repository_url,
          dataset |-> tmjson.dataset,
          projection_bounds |-> tmjson.projection_bounds,
          frames |-> rjson.frames,
          level_info |-> rjson.level_info, nlevels |-> rjson.nlevels,
          width |-> rjson.width, height |-> rjson.height,
          tile_width |-> rjson.tile_width, tile_height |-> rjson.tile_height,
          video_width |-> rjson.video_width, video_height |-> rjson.video_height]
    ELSE Raise("AssertionError", "MetadataFetcher.fetch")

(***************************************************************************)
(* Inputs: what the repository serves, and the configurations.             *)
(***************************************************************************)
\* the whole world; with a raster of 360 x 6262 pixels it has one pixel per
\* degree of longitude and per 1e-3 of ordinate
World == [west |-> -Deg(180), north |-> 85, east |-> Deg(180), south |-> -85]

\* a regional dataset at the same resolution
Region == [west |-> 0, north |-> 60, east |-> Deg(40), south |-> 20]

\* the grid of a pyramid of nlevels levels: level_info[k + 1] is level k
Grid(width, height, tw, th, nlevels) ==
    [k \in 1..nlevels |->
        [cols |-> Max(1, width \div (tw * Pow2(nlevels - k)) - 3),
         rows |-> Max(1, height \div (th * Pow2(nlevels - k)) - 3)]]

\* tm.json: dataset is the id of datasets[0]
TmJson(pb) ==
    [ndatasets |-> 1, dataset |-> "data", projection_bounds |-> pb,
     ncapture_times |-> 2]

RJson(width, height, tw, th, nlevels) ==
    [leader |-> 0, frames |-> 2,
     level_info |-> Grid(width, height, tw, th, nlevels), nlevels |-> nlevels,
     width |-> width, height |-> height,
     tile_width |-> tw, tile_height |-> th,
     video_width |-> 4 * tw, video_height |-> 4 * th]

WorldRepository(n) == [tm |-> TmJson(World), r |-> RJson(360, 6262, 10, 100, n)]

RegionRepository(n) == [tm |-> TmJson(Region), r |-> RJson(40, 961, 2, 50, n)]

\* the reference dataset: the whole world as a raster of 65536 x 65536
\* pixels in 10 levels; a pixel is 45 units of longitude wide
ReferenceRepository ==
    [tm |-> TmJson(World), r |-> RJson(65536, 65536, 256, 256, 10)]

\* repositories whose metadata fetch() accepts
GoodRepositories ==
    {WorldRepository(n) : n \in 1..MaxLevels}
    \cup {RegionRepository(n) : n \in 1..MaxLevels}
    \cup {[WorldRepository(1) EXCEPT !.r.tile_width = 0, !.r.video_width = 0]}

\* repositories whose metadata fetch() rejects
BadRepositories ==
    {[WorldRepository(2) EXCEPT !.r.video_width = 41],
     [WorldRepository(2) EXCEPT !.r.video_height = 399],
     [WorldRepository(2) EXCEPT !.r.nlevels = 3],
     [WorldRepository(2) EXCEPT !.r.leader = 1],
     [WorldRepository(2) EXCEPT !.r.frames = 3],
     [WorldRepository(2) EXCEPT !.tm.ndatasets = 2]}

Repositories == GoodRepositories \cup BadRepositories

Tuple(a, b) == [kind |-> "tuple", v |-> <<a, b>>]

\* c.point: (lat, lon)
ConfigPoints ==
    {Tuple(0, 0), Tuple(60, Deg(179)), Tuple(0, Deg(180)),
     Tuple(-60, -Deg(180)), Tuple(30, Deg(20)), Tuple(40, Deg(38)),
     Tuple(-90, 0), Tuple(91, 0), Tuple(0, Deg(181)), Tuple(0, -Deg(181)),
     Tuple(-91, 0)}

\* a box <<lon, lat, lon, lat>> given in whole degrees
Box(b) == <<Deg(b[1]), b[2], Deg(b[3]), b[4]>>

Shapefile(bbox, poly, nshapes) ==
    [kind |-> "shapefile", nshapes |-> nshapes, shapeTypeName |-> "POLYGON",
     bbox |-> Box(bbox), poly |-> Box(poly)]

\* c.shapefile: bbox is [min lon, min lat, max lon, max lat] as pyshp stores it
Shapefiles ==
    {Shapefile(<<10, 20, 40, 50>>, <<10, 20, 40, 50>>, 1),      \* a filled box
     Shapefile(<<10, 20, 40, 50>>, <<11, 21, 12, 22>>, 1),      \* a speck in a box
     Shapefile(<<175, -10, -165, 10>>, <<175, -10, 180, 10>>, 1),  \* across the date line
     Shapefile(<<10, 20, 40, 20>>, <<10, 20, 40, 20>>, 1),      \* a flat box
     Shapefile(<<10, 50, 40, 20>>, <<10, 20, 40, 50>>, 1),      \* south above north
     Shapefile(<<-190, 0, 10, 10>>, <<-180, 0, 10, 10>>, 1),    \* a longitude off range
     Shapefile(<<10, 20, 40, 91>>, <<10, 20, 40, 90>>, 1),      \* a latitude off range
     Shapefile(<<10, 20, 40, 50>>, <<10, 20, 40, 50>>, 2)}      \* two shapes

\* the values a constraint is drawn from
MaxChoices == {1, 100000, 200000, 222380, 400000, 1000000}

\* c.max_meters_per_pixel: a number, or a (low, high) range
ConfigMaxes == {Int_(1), Int_(200000), Tuple(400000, 1000000)}

\* c.timemachine_repository_url, which Config ends with a slash
RepositoryUrl == "https://tm/"

\* Config: a point, a shapefile, both or neither
Configs ==
    [kind : {"Config"}, timemachine_repository_url : {RepositoryUrl},
          temp_dir : {"tmp"}, point : ConfigPoints, shapefile : {None},
     max_meters_per_pixel : ConfigMaxes]
    \cup [kind : {"Config"}, timemachine_repository_url : {RepositoryUrl},
          temp_dir : {"tmp"}, point : {None}, shapefile : Shapefiles,
          max_meters_per_pixel : {Int_(200000)}]
    \cup [kind : {"Config"}, timemachine_repository_url : {RepositoryUrl},
          temp_dir : {"tmp"}, point : {Tuple(0, 0)},
          shapefile : {Shapefile(<<10, 20, 40, 50>>, <<10, 20, 40, 50>>, 1)},
          max_meters_per_pixel : {Int_(200000)}]
    \cup [kind : {"Config"}, timemachine_repository_url : {RepositoryUrl},
          temp_dir : {"tmp"}, point : {None}, shapefile : {None},
          max_meters_per_pixel : {Int_(200000)}]

\* the results of random.random(), as numerators over DrawDen
Draws == 0..(DrawDen - 1)

(***************************************************************************)
(* main(): one action per step of the try block.                           *)
(***************************************************************************)
\* the iteration limit of random_geopoint
IterationLimit == 250

Init ==
    /\ pc = "fetch"
    /\ config \in Configs
    /\ repository \in Repositories
    /\ metadata = None
    /\ shape = None
    /\ bounds = None
    /\ geopoint = None
    /\ i = 0
    /\ draws = 0
    /\ rejected = 0
    /\ max_meters_per_pixel = None
    /\ proj = None
    /\ pixpoint = None
    /\ level = None
    /\ iterations = 0
    /\ last_one_pixel_off = None
    /\ tile = None
    /\ video = None
    /\ requests = << >>
    /\ written = None
    /\ calls = << >>
    /\ error = None

\* an exception reaches main's except clause: it is logged and the run ends
Fail(e) ==
    /\ pc' = "failed"
    /\ error' = e

\* metadata = MetadataFetcher(...).fetch()
FetchMetadata ==
    /\ pc = "fetch"
    /\ LET m == fetch(MetadataFetcher(config.timemachine_repository_url),
                      repository.tm, repository.r)
       IN  IF IsExc(m)
           THEN Fail(m) /\ UNCHANGED metadata
           ELSE metadata' = m /\ pc' = "point" /\ UNCHANGED error
    /\ UNCHANGED <<config, repository, video, requests, written, shape, bounds, geopoint, i, draws, rejected,
                   max_meters_per_pixel, proj, pixpoint, level, iterations,
                   last_one_pixel_off,
                   tile, calls>>

\* neither a shapefile nor a point is configured
NothingConfigured ==
    /\ pc = "point"
    /\ IsNone(config.shapefile) /\ IsNone(config.point)
    /\ Fail(Raise("RuntimeError", "main"))
    /\ UNCHANGED <<config, repository, video, requests, written, metadata, shape, bounds, geopoint, i, draws, rejected,
                   max_meters_per_pixel, proj, pixpoint, level, iterations,
                   last_one_pixel_off,
                   tile, calls>>

\* geopoint = GeoPoint(c.point[0], c.point[1])
UseConfiguredPoint ==
    /\ pc = "point"
    /\ ~IsNone(config.point)
    /\ LET p == GeoPoint(config.point.v[1], config.point.v[2])
       IN  IF IsExc(p)
           THEN Fail(p) /\ UNCHANGED geopoint
           ELSE geopoint' = p /\ pc' = "max" /\ UNCHANGED error
    /\ UNCHANGED <<config, repository, video, requests, written, metadata, shape, bounds, i, draws, rejected,
                   max_meters_per_pixel, proj, pixpoint, level, iterations,
                   last_one_pixel_off,
                   tile, calls>>

\* shape = GeoShape(c.shapefile) whenever a shapefile is configured, a point
\* configured or not
LoadShapefileWheneverConfigured ==
    /\ pc = "point"
    /\ ~IsNone(config.shapefile)
    /\ LET sh == GeoShape(config.shapefile)
       IN  IF IsExc(sh)
           THEN Fail(sh) /\ UNCHANGED shape
           ELSE shape' = sh /\ pc' = "random_geopoint" /\ UNCHANGED error
    /\ UNCHANGED <<config, repository, video, requests, written, metadata,
                   bounds, geopoint, i, draws, rejected, max_meters_per_pixel,
                   proj, pixpoint, level, iterations, last_one_pixel_off, tile,
                   calls>>

\* shape = GeoShape(c.shapefile)
LoadShapefile ==
    /\ pc = "point"
    /\ IsNone(config.point) /\ ~IsNone(config.shapefile)
    /\ LET sh == GeoShape(config.shapefile)
       IN  IF IsExc(sh)
           THEN Fail(sh) /\ UNCHANGED shape
           ELSE shape' = sh /\ pc' = "random_geopoint" /\ UNCHANGED error
    /\ UNCHANGED <<config, repository, video, requests, written, metadata, bounds, geopoint, i, draws, rejected,
                   max_meters_per_pixel, proj, pixpoint, level, iterations,
                   last_one_pixel_off,
                   tile, calls>>

\* shape.random_geopoint() up to its loop: the bounds, the first draw, i = 0
RandomGeopointEnter ==
    /\ pc = "random_geopoint"
    /\ LET b == from_shapefile_bbox(shape.bbox)
       IN  IF IsExc(b)
           THEN Fail(b) /\ UNCHANGED <<bounds, geopoint, i, draws>>
           ELSE \E u1 \in Draws, u2 \in Draws :
                LET p == GeoPoint_random(b, u1, u2)
                IN  /\ bounds' = b
                    /\ draws' = draws + 1
                    /\ IF IsExc(p)
                       THEN Fail(p) /\ UNCHANGED <<geopoint, i>>
                       ELSE /\ geopoint' = p
                            /\ i' = 0
                            /\ pc' = "sampling"
                            /\ UNCHANGED error
    /\ UNCHANGED <<config, repository, video, requests, written, metadata, shape, rejected, max_meters_per_pixel,
                   proj, pixpoint, level, iterations,
                   last_one_pixel_off, tile, calls>>

\* one test of the loop of random_geopoint with the limit tested by i >= 250
RandomGeopointTestEarly ==
    /\ pc = "sampling"
    /\ IF contains(shape, geopoint)
       THEN /\ pc' = "max"
            /\ UNCHANGED <<geopoint, i, draws, rejected, error>>
       ELSE /\ i' = i + 1
            /\ rejected' = rejected + 1
            /\ IF i' >= IterationLimit
               THEN /\ Fail(Raise("ValueError", "GeoShape.random_geopoint"))
                    /\ UNCHANGED <<geopoint, draws>>
               ELSE \E u1 \in Draws, u2 \in Draws :
                    LET p == GeoPoint_random(bounds, u1, u2)
                    IN  /\ draws' = draws + 1
                        /\ IF IsExc(p)
                           THEN Fail(p) /\ UNCHANGED geopoint
                           ELSE geopoint' = p /\ UNCHANGED <<pc, error>>
    /\ UNCHANGED <<config, repository, video, requests, written, metadata, shape, bounds, max_meters_per_pixel,
                   proj, pixpoint, level, iterations,
                   last_one_pixel_off, tile, calls>>

\* one test of the loop of random_geopoint with the limit tested by i > 251
RandomGeopointTestLate ==
    /\ pc = "sampling"
    /\ IF contains(shape, geopoint)
       THEN /\ pc' = "max"
            /\ UNCHANGED <<geopoint, i, draws, rejected, error>>
       ELSE /\ i' = i + 1
            /\ rejected' = rejected + 1
            /\ IF i' > IterationLimit + 1
               THEN /\ Fail(Raise("ValueError", "GeoShape.random_geopoint"))
                    /\ UNCHANGED <<geopoint, draws>>
               ELSE \E u1 \in Draws, u2 \in Draws :
                    LET p == GeoPoint_random(bounds, u1, u2)
                    IN  /\ draws' = draws + 1
                        /\ IF IsExc(p)
                           THEN Fail(p) /\ UNCHANGED geopoint
                           ELSE geopoint' = p /\ UNCHANGED <<pc, error>>
    /\ UNCHANGED <<config, repository, video, requests, written, metadata, shape, bounds, max_meters_per_pixel,
                   proj, pixpoint, level, iterations,
                   last_one_pixel_off, tile, calls>>

\* one test of the loop of random_geopoint that returns the candidate untested
RandomGeopointTestNone ==
    /\ pc = "sampling"
    /\ pc' = "max"
    /\ UNCHANGED <<geopoint, i, draws, rejected, error>>
    /\ UNCHANGED <<config, repository, video, requests, written, metadata, shape, bounds, max_meters_per_pixel,
                   proj, pixpoint, level, iterations,
                   last_one_pixel_off, tile, calls>>

\* one test of `while not self.contains(geopoint)`: the function returns the
\* candidate, or counts the rejection and raises or draws the next candidate
RandomGeopointTest ==
    /\ pc = "sampling"
    /\ IF contains(shape, geopoint)
       THEN /\ pc' = "max"
            /\ UNCHANGED <<geopoint, i, draws, rejected, error>>
       ELSE /\ i' = i + 1
            /\ rejected' = rejected + 1
            /\ IF i' > IterationLimit
               THEN /\ Fail(Raise("ValueError", "GeoShape.random_geopoint"))
                    /\ UNCHANGED <<geopoint, draws>>
               ELSE \E u1 \in Draws, u2 \in Draws :
                    LET p == GeoPoint_random(bounds, u1, u2)
                    IN  /\ draws' = draws + 1
                        /\ IF IsExc(p)
                           THEN Fail(p) /\ UNCHANGED geopoint
                           ELSE geopoint' = p /\ UNCHANGED <<pc, error>>
    /\ UNCHANGED <<config, repository, video, requests, written, metadata, shape, bounds, max_meters_per_pixel,
                   proj, pixpoint, level, iterations,
                   last_one_pixel_off, tile, calls>>

\* max_meters_per_pixel: random.randrange over a configured range, or the
\* configured number; the locals of a finished random_geopoint are gone
DetermineMax ==
    /\ pc = "max"
    /\ IF config.max_meters_per_pixel.kind = "tuple"
       THEN \E m \in MaxChoices :
                /\ config.max_meters_per_pixel.v[1] <= m
                /\ m < config.max_meters_per_pixel.v[2] + 1
                /\ max_meters_per_pixel' = Int_(m)
       ELSE max_meters_per_pixel' = config.max_meters_per_pixel
    /\ bounds' = None
    /\ i' = 0
    /\ draws' = 0
    /\ rejected' = 0
    /\ pc' = "proj"
    /\ UNCHANGED <<config, repository, video, requests, written, metadata, shape, geopoint, proj, pixpoint, level,
                   iterations,
                   last_one_pixel_off, tile, calls, error>>

\* proj = MercatorProjection(metadata.projection_bounds, metadata.width, metadata.height)
SetupProjection ==
    /\ pc = "proj"
    /\ proj' = MercatorProjection(metadata.projection_bounds, metadata.width,
                                  metadata.height)
    /\ pc' = "pixpoint"
    /\ UNCHANGED <<config, repository, video, requests, written, metadata, shape, bounds, geopoint, i, draws, rejected,
                   max_meters_per_pixel, pixpoint, level, iterations,
                   last_one_pixel_off, tile,
                   calls, error>>

\* pixpoint = proj.geopoint_to_pixpoint(geopoint) with its exception caught
\* and main going on
ComputePixpointAndGoOn ==
    /\ pc = "pixpoint"
    /\ LET pp == geopoint_to_pixpoint(proj, geopoint)
       IN  IF IsExc(pp)
           THEN error' = pp /\ pc' = "level" /\ UNCHANGED pixpoint
           ELSE pixpoint' = pp /\ pc' = "level" /\ UNCHANGED error
    /\ UNCHANGED <<config, repository, video, requests, written, metadata,
                   shape, bounds, geopoint, i, draws, rejected,
                   max_meters_per_pixel, proj, level, iterations,
                   last_one_pixel_off, tile, calls>>

\* pixpoint = proj.geopoint_to_pixpoint(geopoint)
ComputePixpoint ==
    /\ pc = "pixpoint"
    /\ LET pp == geopoint_to_pixpoint(proj, geopoint)
       IN  IF IsExc(pp)
           THEN Fail(pp) /\ UNCHANGED pixpoint
           ELSE pixpoint' = pp /\ pc' = "level" /\ UNCHANGED error
    /\ UNCHANGED <<config, repository, video, requests, written, metadata, shape, bounds, geopoint, i, draws, rejected,
                   max_meters_per_pixel, proj, level, iterations,
                   last_one_pixel_off, tile, calls>>

\* level = geopoint.determine_level(proj, metadata.nlevels, max_meters_per_pixel)
ResolveLevel ==
    /\ pc = "level"
    /\ LET r == determine_level_run(geopoint, proj, metadata.nlevels,
                                  max_meters_per_pixel.value)
       IN  /\ iterations' = r.iterations
           /\ last_one_pixel_off' = r.one_pixel_off
           /\ IF IsExc(r.ret)
              THEN Fail(r.ret) /\ UNCHANGED level
              ELSE level' = r.ret /\ pc' = "tile" /\ UNCHANGED error
    /\ UNCHANGED <<config, repository, video, requests, written, metadata, shape, bounds, geopoint, i, draws, rejected,
                   max_meters_per_pixel, proj, pixpoint, tile, calls>>

\* tile = Tile.from_pixpoint_and_level(pixpoint, level, metadata)
MakeTile ==
    /\ pc = "tile"
    /\ LET t == from_pixpoint_and_level(pixpoint, level, metadata)
       IN  IF IsExc(t)
           THEN Fail(t) /\ UNCHANGED tile
           ELSE tile' = t /\ pc' = "download" /\ UNCHANGED error
    /\ UNCHANGED <<config, repository, video, requests, written, metadata, shape, bounds, geopoint, i, draws, rejected,
                   max_meters_per_pixel, proj, pixpoint, level, iterations,
                   last_one_pixel_off, calls>>

\* download() from the r it has got: a status other than 200 raises
\* ValueError, otherwise __write_to_temp writes r.content to self.path
CheckStatusAndWrite(v, r) ==
    IF r.status_code # 200
    THEN Fail(Raise("ValueError", "RawVideo.download")) /\ UNCHANGED written
    ELSE /\ written' = [kind |-> "file", path |-> v.path, content |-> r.content]
         /\ pc' = "check_against"
         /\ UNCHANGED error

\* video = RawVideo(tile, f"{url}{dataset}", c.temp_dir); video.download() up
\* to the outcome of its first requests.get
DownloadVideo ==
    /\ pc = "download"
    /\ LET v == RawVideo(tile,
                         metadata.timemachine_repository_url \o metadata.dataset,
                         config.temp_dir)
       IN  /\ video' = v
           /\ \E r \in GetOutcomes :
                /\ requests' = Append(requests, r)
                /\ IF IsExc(r)
                   THEN pc' = "retry" /\ UNCHANGED <<written, error>>
                   ELSE CheckStatusAndWrite(v, r)
    /\ UNCHANGED <<config, repository, metadata, shape, bounds, geopoint, i,
                   draws, rejected, max_meters_per_pixel, proj, pixpoint, level,
                   iterations, last_one_pixel_off, tile, calls>>

\* video.download() retrying for as long as requests.get raises
RetryDownloadAgain ==
    /\ pc = "retry"
    /\ \E r \in GetOutcomes :
        /\ requests' = Append(requests, r)
        /\ IF IsExc(r)
           THEN UNCHANGED <<pc, written, error>>
           ELSE CheckStatusAndWrite(video, r)
    /\ UNCHANGED <<config, repository, metadata, shape, bounds, geopoint, i,
                   draws, rejected, max_meters_per_pixel, proj, pixpoint, level,
                   iterations, last_one_pixel_off, tile, video, calls>>

\* video.download() after the first request raised: time.sleep(10), then the
\* second requests.get, whose exception nothing catches
RetryDownload ==
    /\ pc = "retry"
    /\ \E r \in GetOutcomes :
        /\ requests' = Append(requests, r)
        /\ IF IsExc(r)
           THEN Fail(r) /\ UNCHANGED written
           ELSE CheckStatusAndWrite(video, r)
    /\ UNCHANGED <<config, repository, metadata, shape, bounds, geopoint, i,
                   draws, rejected, max_meters_per_pixel, proj, pixpoint, level,
                   iterations, last_one_pixel_off, tile, video, calls>>

Next ==
    \/ FetchMetadata
    \/ NothingConfigured
    \/ UseConfiguredPoint
    \/ LoadShapefile
    \/ RandomGeopointEnter
    \/ RandomGeopointTest
    \/ DetermineMax
    \/ SetupProjection
    \/ ComputePixpoint
    \/ ResolveLevel
    \/ MakeTile
    \/ DownloadVideo
    \/ RetryDownload

Spec == Init /\ [][Next]_vars

(***************************************************************************)
(* Tile.from_pixpoint_and_level applied to any pixel point, level index    *)
(* and metadata that fetch() can return.                                   *)
(***************************************************************************)
\* every Metadata fetch() returns for the repositories of the model
FetchedMetadata ==
    {fetch(MetadataFetcher(RepositoryUrl), rep.tm, rep.r) :
        rep \in GoodRepositories}

\* pixel coordinates inside, at the edges of and far outside the rasters
PixXs == {-1000000, -41, -1, 0, 15, 20, 25, 35, 179, 360, 1000000}

PixYs == {-1000000, -1, 0, 150, 1814, 3131, 6262, 1000000}

InitTile ==
    /\ pc = "from_pixpoint_and_level"
    /\ config = None
    /\ repository = None
    /\ metadata \in FetchedMetadata
    /\ shape = None
    /\ bounds = None
    /\ geopoint = None
    /\ i = 0
    /\ draws = 0
    /\ rejected = 0
    /\ max_meters_per_pixel = None
    /\ proj = None
    /\ pixpoint \in {PixPoint(x, y) : x \in PixXs, y \in PixYs}
    /\ level \in {ZoomLevel(k, 0, 0) : k \in 0..(metadata.nlevels - 1)}
    /\ iterations = 0
    /\ last_one_pixel_off = None
    /\ tile = None
    /\ video = None
    /\ requests = << >>
    /\ written = None
    /\ calls = << >>
    /\ error = None

\* Tile.from_pixpoint_and_level(pixpoint, level, metadata) returns or raises
CallFromPixpointAndLevel ==
    /\ pc = "from_pixpoint_and_level"
    /\ LET t == from_pixpoint_and_level(pixpoint, level, metadata)
       IN  IF IsExc(t)
           THEN pc' = "raised" /\ error' = t /\ UNCHANGED tile
           ELSE pc' = "returned" /\ tile' = t /\ UNCHANGED error
    /\ UNCHANGED <<config, repository, video, requests, written, metadata, shape, bounds, geopoint, i, draws, rejected,
                   max_meters_per_pixel, proj, pixpoint, level, iterations,
                   last_one_pixel_off, calls>>

NextTile == CallFromPixpointAndLevel

SpecTile == InitTile /\ [][NextTile]_vars

(***************************************************************************)
(* GeoPoint.determine_level applied several times to one point and         *)
(* projection, with constraints drawn from MaxChoices.                     *)
(***************************************************************************)
\* determine_level calls made on one point
MaxCalls == 2

\* every GeoPoint a configured point can give
GeoPoints ==
    {p \in {GeoPoint(t.v[1], t.v[2]) : t \in ConfigPoints} : ~IsExc(p)}

InitResolve ==
    /\ pc = "determine_level"
    /\ config = None
    /\ repository = None
    /\ metadata \in FetchedMetadata
    /\ shape = None
    /\ bounds = None
    /\ geopoint \in GeoPoints
    /\ i = 0
    /\ draws = 0
    /\ rejected = 0
    /\ max_meters_per_pixel = None
    /\ proj = MercatorProjection(metadata.projection_bounds, metadata.width,
                                 metadata.height)
    /\ pixpoint = None
    /\ level = None
    /\ iterations = 0
    /\ last_one_pixel_off = None
    /\ tile = None
    /\ video = None
    /\ requests = << >>
    /\ written = None
    /\ calls = << >>
    /\ error = None

\* geopoint.determine_level(proj, metadata.nlevels, m) returns or raises
CallDetermineLevel ==
    /\ pc = "determine_level"
    /\ Len(calls) < MaxCalls
    /\ \E m \in MaxChoices :
        LET r == determine_level_run(geopoint, proj, metadata.nlevels, m)
        IN  calls' = Append(calls,
                            [max |-> m, ret |-> r.ret, computed |-> r.computed])
    /\ UNCHANGED <<pc, config, repository, video, requests, written, metadata, shape, bounds, geopoint, i, draws,
                   rejected, max_meters_per_pixel, proj, pixpoint, level,
                   iterations, last_one_pixel_off, tile, error>>

NextResolve == CallDetermineLevel

SpecResolve == InitResolve /\ [][NextResolve]_vars

(***************************************************************************)
(* The reference dataset: geopoint_to_pixpoint and determine_level applied *)
(* to points on its pixel grid, with constraints drawn from MaxChoices.    *)
(***************************************************************************)
ReferenceMetadata ==
    fetch(MetadataFetcher(RepositoryUrl), ReferenceRepository.tm,
          ReferenceRepository.r)

ReferenceProjection ==
    MercatorProjection(ReferenceMetadata.projection_bounds,
                       ReferenceMetadata.width, ReferenceMetadata.height)

\* the GeoPoint of latitude lat at the west edge of pixel column x
AtColumn(lat, x) ==
    GeoPoint(lat, interpolate(x, 0, ReferenceProjection.width,
                              ReferenceProjection.west, ReferenceProjection.east))

ReferencePoints ==
    {AtColumn(lat, x) : lat \in {-60, 0, 60, 85},
                        x \in {0, 1, 16384, 32768, 65024, 65535, 65536}}

InitReference ==
    /\ pc = "geopoint_to_pixpoint"
    /\ config = None
    /\ repository = None
    /\ metadata = ReferenceMetadata
    /\ shape = None
    /\ bounds = None
    /\ geopoint \in ReferencePoints
    /\ i = 0
    /\ draws = 0
    /\ rejected = 0
    /\ max_meters_per_pixel = None
    /\ proj = ReferenceProjection
    /\ pixpoint = None
    /\ level = None
    /\ iterations = 0
    /\ last_one_pixel_off = None
    /\ tile = None
    /\ video = None
    /\ requests = << >>
    /\ written = None
    /\ calls = << >>
    /\ error = None

\* pixpoint = proj.geopoint_to_pixpoint(geopoint), determine_level is next
ProjectReferencePoint ==
    /\ pc = "geopoint_to_pixpoint"
    /\ LET pp == geopoint_to_pixpoint(proj, geopoint)
       IN  IF IsExc(pp)
           THEN pc' = "raised" /\ error' = pp /\ UNCHANGED pixpoint
           ELSE pc' = "determine_level" /\ pixpoint' = pp /\ UNCHANGED error
    /\ UNCHANGED <<config, repository, video, requests, written, metadata, shape, bounds, geopoint, i, draws, rejected,
                   max_meters_per_pixel, proj, level, iterations,
                   last_one_pixel_off, tile, calls>>

NextReference ==
    \/ ProjectReferencePoint
    \/ CallDetermineLevel

SpecReference == InitReference /\ [][NextReference]_vars

(***************************************************************************)
(* MercatorProjection.geopoint_to_pixpoint applied to a point, and         *)
(* pixpoint_to_geopoint applied to what it returns.                        *)
(***************************************************************************)
GridLats == {-90, -85, -60, -45, -20, 0, 20, 30, 45, 60, 85, 90}

GridLons == {-Deg(180), -Deg(90), 0, Deg(20), Deg(40), Deg(90), Deg(180)}

\* GeoPoints inside, on the edges of and outside the projection bounds
GridPoints == {GeoPoint(lat, lon) : lat \in GridLats, lon \in GridLons}

InitProject ==
    /\ pc = "geopoint_to_pixpoint"
    /\ config = None
    /\ repository = None
    /\ metadata \in FetchedMetadata
    /\ shape = None
    /\ bounds = None
    /\ geopoint \in GridPoints
    /\ i = 0
    /\ draws = 0
    /\ rejected = 0
    /\ max_meters_per_pixel = None
    /\ proj = MercatorProjection(metadata.projection_bounds, metadata.width,
                                 metadata.height)
    /\ pixpoint = None
    /\ level = None
    /\ iterations = 0
    /\ last_one_pixel_off = None
    /\ tile = None
    /\ video = None
    /\ requests = << >>
    /\ written = None
    /\ calls = << >>
    /\ error = None

\* pixpoint = proj.geopoint_to_pixpoint(geopoint) returns or raises
CallGeopointToPixpoint ==
    /\ pc = "geopoint_to_pixpoint"
    /\ LET pp == geopoint_to_pixpoint(proj, geopoint)
       IN  IF IsExc(pp)
           THEN pc' = "raised" /\ error' = pp /\ UNCHANGED pixpoint
           ELSE pc' = "pixpoint_to_geopoint" /\ pixpoint' = pp /\ UNCHANGED error
    /\ UNCHANGED <<config, repository, video, requests, written, metadata, shape, bounds, geopoint, i, draws, rejected,
                   max_meters_per_pixel, proj, level, iterations,
                   last_one_pixel_off, tile, calls>>

\* proj.pixpoint_to_geopoint(pixpoint) returns or raises
CallPixpointToGeopoint ==
    /\ pc = "pixpoint_to_geopoint"
    /\ LET q == pixpoint_to_geopoint(proj, pixpoint)
       IN  /\ calls' = Append(calls, [arg |-> pixpoint, ret |-> q])
           /\ IF IsExc(q)
              THEN pc' = "raised" /\ error' = q
              ELSE pc' = "returned" /\ UNCHANGED error
    /\ UNCHANGED <<config, repository, video, requests, written, metadata, shape, bounds, geopoint, i, draws, rejected,
                   max_meters_per_pixel, proj, pixpoint, level, iterations,
                   last_one_pixel_off, tile>>

NextProject ==
    \/ CallGeopointToPixpoint
    \/ CallPixpointToGeopoint

SpecProject == InitProject /\ [][NextProject]_vars

(***************************************************************************)
(* Properties.                                                             *)
(***************************************************************************)
IsKind(v, k) == v.kind = k

\* the grid of the level a tile was asked for
GridOf(md, level_) == md.level_info[level_.index + 1]

GridHasTiles(md) ==
    \A k \in 1..Len(md.level_info) :
        md.level_info[k].cols >= 1 /\ md.level_info[k].rows >= 1

TileInGrid(t, md) ==
    /\ 0 <= t.col /\ t.col <= GridOf(md, t.level).cols - 1
    /\ 0 <= t.row /\ t.row <= GridOf(md, t.level).rows - 1

\* C1 as stated: for every pixel point, every level index in 0..nlevels-1 and
\* every metadata with len(level_info) = nlevels and cols, rows >= 1,
\* from_pixpoint_and_level returns, without an error, a tile of the level's grid.
C1_TileAlwaysInGrid ==
    (/\ pc \in {"returned", "raised"}
     /\ Len(metadata.level_info) = metadata.nlevels
     /\ GridHasTiles(metadata))
    => (pc = "returned" /\ TileInGrid(tile, metadata))

\* C1 amended: the same for every metadata whose tile_width and tile_height
\* are not zero; with a zero tile size the division raises ZeroDivisionError.
C1_TileInGridOfNonzeroTiles ==
    /\ (/\ pc \in {"returned", "raised"}
        /\ Len(metadata.level_info) = metadata.nlevels
        /\ GridHasTiles(metadata)
        /\ metadata.tile_width # 0 /\ metadata.tile_height # 0)
       => (pc = "returned" /\ TileInGrid(tile, metadata))
    /\ (pc = "raised")
       => (/\ error.type = "ZeroDivisionError"
           /\ (metadata.tile_width = 0 \/ metadata.tile_height = 0))

\* C1 witness: pixel points far outside the raster were clamped to the last
\* column and the first row of a grid with more than one column and row
C1_Witness ==
    /\ pc = "returned"
    /\ pixpoint.x = 1000000 /\ pixpoint.y = -1000000
    /\ GridOf(metadata, level).cols > 1 /\ GridOf(metadata, level).rows > 1
    /\ tile.col = GridOf(metadata, level).cols - 1
    /\ tile.row = 0

\* C3: determine_level is monotonic in its constraint: of two calls on one
\* point that both return, the one with the larger max_meters_per_pixel
\* returns an index that is not larger.
C3_MonotonicInConstraint ==
    \A a \in DOMAIN calls, b \in DOMAIN calls :
        (/\ IsKind(calls[a].ret, "ZoomLevel")
         /\ IsKind(calls[b].ret, "ZoomLevel")
         /\ calls[a].max <= calls[b].max)
        => calls[b].ret.index <= calls[a].ret.index

\* C3 witness: two calls returned, the larger constraint a strictly coarser level
C3_Witness ==
    \E a \in DOMAIN calls, b \in DOMAIN calls :
        /\ IsKind(calls[a].ret, "ZoomLevel")
        /\ IsKind(calls[b].ret, "ZoomLevel")
        /\ calls[a].max < calls[b].max
        /\ calls[b].ret.index < calls[a].ret.index

\* metersPerPixel of level lvl at the point self, as the loop of
\* determine_level computes it, without the range check of one_pixel_off
meters_per_pixel_of_level(self, proj_, nlevels, lvl) ==
    LET x == interpolate(self.lon, proj_.west, proj_.east, 0, proj_.width)
        lon == interpolate(x + one_over_scale(nlevels, lvl), 0, proj_.width,
                           proj_.west, proj_.east)
    IN  TimesDegrees((radians(earth_radius) * cos(self.lat)) \div 1000,
                     Abs(self.lon - lon))

\* C2 as stated: whenever some level in 0..nlevels-1 has metersPerPixel at most
\* max_meters_per_pixel, the ZoomLevel determine_level returns has
\* meters_per_pixel at most max_meters_per_pixel.
C2_LevelCompliesWithCeiling ==
    (/\ IsKind(level, "ZoomLevel")
     /\ \E k \in 0..(metadata.nlevels - 1) :
            meters_per_pixel_of_level(geopoint, proj, metadata.nlevels, k)
                <= max_meters_per_pixel.value)
    => level.meters_per_pixel <= max_meters_per_pixel.value

WithinProjectionBounds(p, proj_) ==
    /\ proj_.west <= p.lon /\ p.lon <= proj_.east
    /\ proj_.south <= p.lat /\ p.lat <= proj_.north

\* C4 as stated: for every GeoPoint within the projection bounds, every
\* nlevels >= 1 and every constraint, determine_level returns a ZoomLevel and
\* raises no error at any iteration.
C4_DetermineLevelTotal ==
    (/\ IsKind(pixpoint, "PixPoint")
     /\ pc # "level"
     /\ metadata.nlevels >= 1
     /\ WithinProjectionBounds(geopoint, proj))
    => IsKind(level, "ZoomLevel")

\* random_geopoint raised its ValueError
SamplingExhausted ==
    /\ pc = "failed"
    /\ error.type = "ValueError" /\ error.at = "GeoShape.random_geopoint"

\* C5 as stated: the error is raised after exactly 250 rejected draws, without
\* a 251st point being drawn or tested; no error if one of the first 250 draws
\* is accepted.
C5_ExhaustedAfter250Draws ==
    /\ rejected = IterationLimit => (SamplingExhausted /\ draws = IterationLimit)
    /\ SamplingExhausted => (rejected = IterationLimit /\ draws = IterationLimit)

\* C5 amended: the error is raised after exactly 251 rejected draws (the first
\* draw and 250 further ones), without a 252nd point being drawn or tested;
\* no error if one of the first 251 draws is accepted.
C5_ExhaustedAfter251Draws ==
    /\ rejected = IterationLimit + 1
       => (SamplingExhausted /\ draws = IterationLimit + 1)
    /\ SamplingExhausted
       => (rejected = IterationLimit + 1 /\ draws = IterationLimit + 1)
    /\ draws <= IterationLimit + 1
    /\ rejected <= draws

\* C5 witness: the error was raised
C5_Witness == SamplingExhausted /\ rejected = draws

\* random_geopoint has returned and main has not gone on yet
SamplingReturned ==
    /\ pc = "max"
    /\ IsKind(bounds, "GeoRect")

\* C6: a point random_geopoint returns is the first drawn point accepted by
\* contains: it is contained, and every point drawn before it was rejected.
C6_ReturnsFirstAccepted ==
    SamplingReturned
    => (/\ contains(shape, geopoint)
        /\ rejected = draws - 1)

\* C6 witness: a point was returned after some rejected draws
C6_Witness == SamplingReturned /\ rejected >= 2

\* C7 as stated: determine_level executes at most nlevels loop iterations and
\* random_geopoint makes at most 250 sampling attempts.
C7_LoopsWithinStatedBounds ==
    /\ IsKind(metadata, "Metadata") => iterations <= metadata.nlevels
    /\ draws <= IterationLimit

\* C7 amended: determine_level executes at most nlevels loop iterations and
\* random_geopoint makes at most 251 sampling attempts.
C7_LoopsWithinBounds ==
    /\ IsKind(metadata, "Metadata") => iterations <= metadata.nlevels
    /\ draws <= IterationLimit + 1
    /\ i <= IterationLimit + 1

\* C7 witness: random_geopoint returned the point of its last possible attempt
C7_Witness == SamplingReturned /\ draws = IterationLimit + 1

InRange(lat, lon) ==
    -90 <= lat /\ lat <= 90 /\ -Deg(180) <= lon /\ lon <= Deg(180)

\* the GeoPoints of a state
LiveGeoPoints ==
    {p \in {geopoint, last_one_pixel_off} : IsKind(p, "GeoPoint")}
    \cup (IF IsKind(bounds, "GeoRect") THEN {bounds.sw, bounds.ne} ELSE {})

\* main has executed geopoint = GeoPoint(c.point[0], c.point[1])
ConfiguredPointBuilt ==
    /\ IsKind(metadata, "Metadata")
    /\ IsKind(config, "Config") /\ IsKind(config.point, "tuple")
    /\ pc # "point"

\* random_geopoint has executed GeoRect.from_shapefile_bbox and main has not
\* gone on yet
BoundsBuilt ==
    /\ IsKind(shape, "GeoShape")
    /\ pc \in {"sampling", "max", "failed"}
    /\ IsNone(max_meters_per_pixel)

\* C8: GeoPoint construction succeeds exactly when -90 <= lat <= 90 and
\* -180 <= lon <= 180, so every GeoPoint of a reachable state (configured,
\* a corner of a bounding box, sampled, or projected back) is in range.
C8_GeoPointsInRange ==
    /\ \A p \in LiveGeoPoints : InRange(p.lat, p.lon)
    /\ ConfiguredPointBuilt
       => (IsKind(geopoint, "GeoPoint")
           <=> InRange(config.point.v[1], config.point.v[2]))
    /\ BoundsBuilt
       => ((IsExc(error) /\ error.at = "GeoPoint.__init__")
           <=> ~(/\ InRange(shape.bbox[2], shape.bbox[1])
                 /\ InRange(shape.bbox[4], shape.bbox[3])))

\* C8 witness: a point on the boundary lon = 180 was accepted and the point
\* one pixel east of it, projected back, was refused
C8_Witness ==
    /\ IsKind(geopoint, "GeoPoint") /\ geopoint.lon = Deg(180)
    /\ pc = "failed" /\ error.at = "GeoPoint.__init__"

\* C9: GeoRect construction fails exactly when sw.lat > ne.lat; it succeeds
\* for sw.lat <= ne.lat whatever the longitudes, also for sw.lon > ne.lon.
C9_GeoRectFailsOnLatitudesOnly ==
    (/\ BoundsBuilt
     /\ InRange(shape.bbox[2], shape.bbox[1])
     /\ InRange(shape.bbox[4], shape.bbox[3]))
    => /\ IsKind(bounds, "GeoRect") <=> shape.bbox[2] <= shape.bbox[4]
       /\ (IsExc(error) /\ error.at = "GeoRect.__init__")
          <=> shape.bbox[2] > shape.bbox[4]
       /\ IsKind(bounds, "GeoRect")
          => (/\ bounds.sw = GeoPoint(shape.bbox[2], shape.bbox[1])
              /\ bounds.ne = GeoPoint(shape.bbox[4], shape.bbox[3]))

\* C9 witness: a rectangle across the antimeridian was built
C9_Witness ==
    /\ IsKind(bounds, "GeoRect")
    /\ bounds.sw.lon > bounds.ne.lon

\* p lies in the rectangle r, whose longitude span wraps when ne.lon < sw.lon
InRect(p, r) ==
    /\ r.sw.lat <= p.lat /\ p.lat <= r.ne.lat
    /\ -Deg(180) <= p.lon /\ p.lon <= Deg(180)
    /\ IF r.sw.lon <= r.ne.lon
       THEN r.sw.lon <= p.lon /\ p.lon <= r.ne.lon
       ELSE p.lon >= r.sw.lon \/ p.lon <= r.ne.lon

\* C10: for every rectangle and every pair of draws, GeoPoint.random returns
\* a point whose latitude lies between the rectangle's and whose longitude
\* lies in [-180, 180] inside the rectangle's span, wrapped or not.
C10_RandomPointInRect ==
    IsKind(bounds, "GeoRect")
    => (/\ IsKind(geopoint, "GeoPoint")
        /\ InRect(geopoint, bounds)
        /\ ~(IsExc(error) /\ error.at = "GeoPoint.__init__"))

\* C10 witness: a draw beyond 180 degrees was brought back into a wrapped span
C10_Witness ==
    /\ IsKind(bounds, "GeoRect")
    /\ bounds.ne.lon < bounds.sw.lon
    /\ IsKind(geopoint, "GeoPoint")
    /\ geopoint.lon <= bounds.ne.lon
    /\ draws >= 2

\* the round trip of the projection harness has been made
RoundTripDone == pc \in {"returned", "raised"}

CallsWith(m) == {c \in DOMAIN calls : calls[c].max = m}

\* C12: in the reference scenario (bounds -180, 85, 180, -85, raster
\* 65536 x 65536, nlevels = 10, point lat 0, lon 0) the forward projection
\* yields the pixel point (32768, 32768), determine_level with the constraint 1
\* returns index 9 and with the constraint 1000000 returns index 0.
C12_ReferenceScenario ==
    (geopoint = GeoPoint(0, 0) /\ pc = "determine_level")
    => (/\ pixpoint = PixPoint(32768, 32768)
        /\ \A c \in CallsWith(1) :
              IsKind(calls[c].ret, "ZoomLevel") /\ calls[c].ret.index = 9
        /\ \A c \in CallsWith(1000000) :
              IsKind(calls[c].ret, "ZoomLevel") /\ calls[c].ret.index = 0)

\* C12 witness: both calls of the scenario were made on the point (0, 0)
C12_Witness ==
    /\ geopoint = GeoPoint(0, 0)
    /\ proj = MercatorProjection(World, 65536, 65536)
    /\ metadata.nlevels = 10
    /\ pixpoint = PixPoint(32768, 32768)
    /\ CallsWith(1) # {}
    /\ CallsWith(1000000) # {}

\* the bbox of the loaded shape gives two GeoPoints and a GeoRect
BboxAccepted ==
    /\ InRange(shape.bbox[2], shape.bbox[1])
    /\ InRange(shape.bbox[4], shape.bbox[3])
    /\ shape.bbox[2] <= shape.bbox[4]

\* C13: from_shapefile_bbox maps [minLon, minLat, maxLon, maxLat] to the
\* rectangle with sw.lat = bbox[1], sw.lon = bbox[0], ne.lat = bbox[3] and
\* ne.lon = bbox[2], and fails when one of these values is outside the
\* GeoPoint ranges or bbox[1] > bbox[3] (here bbox[k] is shape.bbox[k + 1]).
C13_BboxToRect ==
    BoundsBuilt
    => (/\ BboxAccepted <=> IsKind(bounds, "GeoRect")
        /\ ~BboxAccepted
           <=> (/\ pc = "failed" /\ IsNone(bounds)
                /\ error.type = "AssertionError"
                /\ error.at \in {"GeoPoint.__init__", "GeoRect.__init__"})
        /\ IsKind(bounds, "GeoRect")
           => (/\ bounds.sw.lat = shape.bbox[2]
               /\ bounds.sw.lon = shape.bbox[1]
               /\ bounds.ne.lat = shape.bbox[4]
               /\ bounds.ne.lon = shape.bbox[3]))

\* C13 witness: the box [10, 20, 40, 50] became the rectangle from
\* (lat 20, lon 10) to (lat 50, lon 40)
C13_Witness ==
    /\ BoundsBuilt
    /\ shape.bbox = <<Deg(10), 20, Deg(40), 50>>
    /\ IsKind(bounds, "GeoRect")
    /\ bounds.sw = GeoPoint(20, Deg(10))
    /\ bounds.ne = GeoPoint(50, Deg(40))

\* the invariants of the metadata, on a Metadata value or on an r.json
SizesConsistent(m) ==
    /\ m.video_width = 4 * m.tile_width
    /\ m.video_height = 4 * m.tile_height
    /\ Len(m.level_info) = m.nlevels

\* main is at or past the projection, zoom or tile step
PastPointStep == pc \in {"proj", "pixpoint", "level", "tile", "download"}

\* C14: every Metadata fetch returns has video_width = 4 * tile_width,
\* video_height = 4 * tile_height and len(level_info) = nlevels; when the
\* fetched data violates one of these, fetch fails, and no Metadata reaches the
\* projection, zoom or tile steps.
C14_FetchedMetadataConsistent ==
    /\ IsKind(metadata, "Metadata") => SizesConsistent(metadata)
    /\ (pc # "fetch" /\ ~SizesConsistent(repository.r))
       => (/\ pc = "failed"
           /\ error = Raise("AssertionError", "MetadataFetcher.fetch")
           /\ IsNone(metadata) /\ IsNone(proj) /\ IsNone(pixpoint)
           /\ IsNone(level) /\ IsNone(tile))
    /\ PastPointStep
       => (IsKind(metadata, "Metadata") /\ SizesConsistent(repository.r))

\* C14 witness: r.json with a video_width that is not 4 * tile_width was
\* fetched, and the run failed in fetch
C14_Witness ==
    /\ repository.r.video_width # 4 * repository.r.tile_width
    /\ repository.r.video_height = 4 * repository.r.tile_height
    /\ Len(repository.r.level_info) = repository.r.nlevels
    /\ pc = "failed"
    /\ error.at = "MetadataFetcher.fetch"

\* C15: the address built for a tile has the components in the order level
\* index, row, column: for Tile(level, col, row) the url is
\* base_url + '/' + level.index + '/' + row + '/' + col + '.mp4'.
C15_UrlIsLevelRowCol ==
    IsKind(video, "RawVideo")
    => (/\ video.tile = tile
        /\ video.base_url = RepositoryUrl \o "data"
        /\ video.url = video.base_url \o "/" \o ToString(tile.level.index)
                       \o "/" \o ToString(tile.row)
                       \o "/" \o ToString(tile.col) \o ".mp4")

\* C15 witness: the address of the tile of level 2, column 32 and row 16
C15_Witness ==
    /\ IsKind(video, "RawVideo")
    /\ tile.level.index = 2 /\ tile.col = 32 /\ tile.row = 16
    /\ video.url = "https://tm/data/2/16/32.mp4"

\* the indices whose metersPerPixel at the point p is greater than m
LevelsAbove(p, m) ==
    {k \in 0..(metadata.nlevels - 1) :
        meters_per_pixel_of_level(p, proj, metadata.nlevels, k) > m}

\* the largest element of a non-empty set of integers
Largest(S) == CHOOSE k \in S : \A j \in S : j <= k

TwiceOffCentre(z, k, tsize, vsize, level_scale) ==
    2 * z - (2 * k * tsize * level_scale + vsize * level_scale)

\* the index k the tile has along one axis is the clamped nearest integer to
\* (z - vsize * level_scale / 2) / (tsize * level_scale): where no clamp
\* applied the centre is within half a scaled tile of z; where k is the first
\* or last index, z may lie beyond the centre on that side
NearestClamped(z, k, last, tsize, vsize, level_scale) ==
    LET off == TwiceOffCentre(z, k, tsize, vsize, level_scale)
        half == tsize * level_scale
    IN  /\ (0 < k /\ k < last) => (-half <= off /\ off <= half)
        /\ (k = 0 /\ last > 0) => off <= half
        /\ (k = last /\ last > 0) => -half <= off

\* C17: with levelScale = 2^(nlevels - 1 - index) the column computed before
\* clamping is the integer nearest to
\* (x - video_width * levelScale / 2) / (tile_width * levelScale), likewise the
\* row; so whenever no clamping is applied the centre of the selected video is
\* within half a scaled tile width of the pixel point's x, and the same holds
\* vertically.
C17_TileNearestToPixpoint ==
    pc = "returned"
    => LET level_scale == Pow2(metadata.nlevels - 1 - level.index)
       IN  /\ NearestClamped(pixpoint.x, tile.col,
                             GridOf(metadata, level).cols - 1,
                             metadata.tile_width, metadata.video_width,
                             level_scale)
           /\ NearestClamped(pixpoint.y, tile.row,
                             GridOf(metadata, level).rows - 1,
                             metadata.tile_height, metadata.video_height,
                             level_scale)

\* C17 witness: an unclamped tile whose video centre is off the pixel point,
\* by less than half a tile horizontally (x = 179, centre 180) and vertically
\* (y = 1814, centre 1800)
C17_Witness ==
    /\ pc = "returned"
    /\ pixpoint = PixPoint(179, 1814)
    /\ metadata.tile_width = 10 /\ metadata.tile_height = 100
    /\ level.index = metadata.nlevels - 1
    /\ tile.col = 16 /\ tile.row = 16
    /\ 0 < tile.col /\ tile.col < GridOf(metadata, level).cols - 1
    /\ 0 < tile.row /\ tile.row < GridOf(metadata, level).rows - 1

\* the steps of main that have completed
MetadataFetched == IsKind(metadata, "Metadata")

PointObtained ==
    /\ IsKind(geopoint, "GeoPoint")
    /\ (pc = "max" \/ ~IsNone(max_meters_per_pixel))

PixpointComputed == IsKind(pixpoint, "PixPoint")

LevelResolved == IsKind(level, "ZoomLevel")

TileIndexed == IsKind(tile, "Tile")

DownloadAttempted == requests # << >> \/ ~IsNone(video) \/ ~IsNone(written)

\* every completed step has all the steps before it completed
StepsInOrder ==
    /\ PointObtained => MetadataFetched
    /\ PixpointComputed => PointObtained
    /\ LevelResolved => PixpointComputed
    /\ TileIndexed => LevelResolved
    /\ DownloadAttempted => TileIndexed
    /\ DownloadAttempted
       => (IsExc(error) => error.at \in {"requests.get", "RawVideo.download"})
    /\ pc = "failed" <=> IsExc(error)

\* a step completes no step out of turn, undoes none, and none is taken
\* after a failure
StepInOrder ==
    /\ pc # "failed"
    /\ (PointObtained' /\ ~PointObtained) => (MetadataFetched /\ ~PixpointComputed')
    /\ (PixpointComputed' /\ ~PixpointComputed) => (PointObtained /\ ~LevelResolved')
    /\ (LevelResolved' /\ ~LevelResolved) => (PixpointComputed /\ ~TileIndexed')
    /\ (TileIndexed' /\ ~TileIndexed) => (LevelResolved /\ ~DownloadAttempted')
    /\ (DownloadAttempted' /\ ~DownloadAttempted) => TileIndexed
    /\ MetadataFetched => MetadataFetched'
    /\ PointObtained => PointObtained'
    /\ PixpointComputed => PixpointComputed'
    /\ LevelResolved => LevelResolved'
    /\ TileIndexed => TileIndexed'

\* C18: main runs the pipeline in a fixed order (metadata fetch, GeoPoint,
\* forward projection, zoom level, tile, download); the download is attempted
\* only after every earlier step has completed without error, and a failure in
\* a step ends the run without a later step being executed.
C18_PipelineInOrder == [] StepsInOrder /\ [][StepInOrder]_vars

\* C18 witness: every step completed and the video was written
C18_Witness ==
    /\ pc = "check_against"
    /\ MetadataFetched /\ PointObtained /\ PixpointComputed
    /\ LevelResolved /\ TileIndexed
    /\ Len(requests) = 1
    /\ IsKind(written, "file")

HasPoint == IsKind(config.point, "tuple")

HasShapefile == IsKind(config.shapefile, "shapefile")

\* nothing of the projection, zoom, tile or download steps has happened
NothingProjected ==
    /\ IsNone(proj) /\ IsNone(pixpoint) /\ IsNone(level) /\ IsNone(tile)
    /\ ~DownloadAttempted

\* C20: the source of the GeoPoint is decided by the configuration alone: a
\* configured point is used and the shapefile is neither loaded nor sampled,
\* even if one is configured; with only a shapefile the point comes from
\* random_geopoint; with neither, RuntimeError is raised before any projection,
\* zoom resolution, tile indexing or download.
C20_PointSourceByConfiguration ==
    /\ HasPoint
       => (/\ IsNone(shape) /\ IsNone(bounds)
           /\ draws = 0 /\ rejected = 0
           /\ pc \notin {"random_geopoint", "sampling"}
           /\ IsKind(geopoint, "GeoPoint")
              => geopoint = GeoPoint(config.point.v[1], config.point.v[2]))
    /\ (~HasPoint /\ HasShapefile /\ IsKind(geopoint, "GeoPoint"))
       => (/\ IsKind(shape, "GeoShape")
           /\ InRect(geopoint, from_shapefile_bbox(shape.bbox))
           /\ PointObtained => contains(shape, geopoint))
    /\ (~HasPoint /\ ~HasShapefile)
       => (/\ IsNone(geopoint) /\ IsNone(shape) /\ NothingProjected
           /\ (MetadataFetched /\ pc # "point")
              => (pc = "failed" /\ error = Raise("RuntimeError", "main")))

\* C20 witness: a point and a shapefile are configured, and main went on with
\* the configured point
C20_Witness ==
    /\ HasPoint /\ HasShapefile
    /\ pc = "max"
    /\ geopoint = GeoPoint(config.point.v[1], config.point.v[2])
    /\ IsNone(shape)

\* the calls of determine_level C19 is about: |lat| < 90 and east # west
DoublingCalls ==
    {c \in DOMAIN calls : Abs(geopoint.lat) < 90 /\ proj.east # proj.west}

DownloadOver == requests # << >> /\ pc \notin {"download", "retry"}

\* the outcome of the last requests.get of the call
LastOutcome == requests[Len(requests)]

\* C21: RawVideo.download issues at most two GET requests per call; the
\* second is made only when the first raised a request exception, and it is
\* then always made; an exception of the second request reaches the caller
\* and no third request follows; the file is written (r.content at
\* self.path) exactly when the last response has status code 200, and for any
\* other status a ValueError is raised and nothing is written.
C21_DownloadRetriesOnce ==
    /\ Len(requests) <= 2
    /\ Len(requests) = 2 => IsExc(requests[1])
    /\ pc = "retry" <=> (Len(requests) = 1 /\ IsExc(requests[1]))
    /\ pc = "retry" => IsNone(written) /\ IsNone(error)
    /\ requests = << >> => IsNone(written)
    /\ DownloadOver =>
          IF IsExc(LastOutcome)
          THEN /\ Len(requests) = 2
               /\ pc = "failed"
               /\ error = LastOutcome
               /\ IsNone(written)
          ELSE IF LastOutcome.status_code = 200
          THEN /\ pc = "check_against"
               /\ IsNone(error)
               /\ written = [kind |-> "file", path |-> video.path,
                             content |-> LastOutcome.content]
          ELSE /\ pc = "failed"
               /\ error = Raise("ValueError", "RawVideo.download")
               /\ IsNone(written)

\* the first request raised and the second one answered 200: the file is there
C21_Witness ==
    /\ Len(requests) = 2
    /\ IsExc(requests[1])
    /\ requests[2] = Response(200)
    /\ ~IsNone(written)

====
